---- MODULE Spec2Model ----
(***************************************************************************)
(* Model of the LinkedIn post dataset builder:                             *)
(*   src/src/helper_functions.py  (parse_linkedin_export, get_posts and    *)
(*                                 the text/feature helpers)               *)
(*   src/src/data_acquisition.py  (make_dataset)                           *)
(*                                                                         *)
(* A text is a sequence of tokens.  A token is one character (a string of  *)
(* length 1) or one whole markup tag ("<b>", "</a>", ...): the HTML parser *)
(* consumes a tag as a unit, the regular expressions work on characters.   *)
(***************************************************************************)
EXTENDS Integers, Sequences, FiniteSets, TLC

VARIABLES
    pc,         \* position of make_dataset / get_posts
    export,     \* the spreadsheet export found in export_dir
    posts_df,   \* result of parse_linkedin_export (rows, in file order)
    df,         \* the working table of get_posts
    index,      \* number of rows the for-loop of get_posts has consumed
    fetchLog,   \* row positions for which requests.get was called, in call order
    fetched,    \* per row: whether the loop body ran, and what _download_post_html returned
    outcomes,   \* per row: what the network answered to the row's request
    saved,      \* the tables written by to_csv
    raw,        \* text functions: the input text
    step,       \* text functions: which function has been applied
    cleaned,    \* text functions: _clean_text(raw)
    recleaned,  \* text functions: _clean_text(_clean_text(raw))
    n_tags      \* text functions: _detect_tags(raw)

vars == <<pc, export, posts_df, df, index, fetchLog, fetched, outcomes, saved,
          raw, step, cleaned, recleaned, n_tags>>

pipelineVars == <<pc, export, posts_df, df, index, fetchLog, fetched, outcomes, saved>>
textVars == <<raw, step, cleaned, recleaned, n_tags>>

(***************************************************************************)
(* Bounds of the model.                                                    *)
(***************************************************************************)
MaxPosts == 2

MaxFrags == 3

(***************************************************************************)
(* Character classes of Python's re module.                                *)
(***************************************************************************)
LowerSeq == <<"a", "b", "c", "d", "e", "f", "g", "h", "i", "j", "k", "l", "m",
              "n", "o", "p", "q", "r", "s", "t", "u", "v", "w", "x", "y", "z">>

UpperSeq == <<"A", "B", "C", "D", "E", "F", "G", "H", "I", "J", "K", "L", "M",
              "N", "O", "P", "Q", "R", "S", "T", "U", "V", "W", "X", "Y", "Z">>

Digits == {"0", "1", "2", "3", "4", "5", "6", "7", "8", "9"}

Range(s) == {s[i] : i \in DOMAIN s}

Alnum == Range(LowerSeq) \cup Range(UpperSeq) \cup Digits

\* \w
IsWord(c) == c \in Alnum \cup {"_"}

\* \s
IsSpace(c) == c \in {" ", "\n", "\t"}

\* [a-zA-Z0-9_-]
IsLinkToken(c) == c \in Alnum \cup {"_", "-"}

\* [a-zA-Z0-9._-]
IsMentionChar(c) == c \in Alnum \cup {".", "_", "-"}

\* [.!?,:;]
IsPunct(c) == c \in {".", "!", "?", ",", ":", ";"}

\* the complement of [^\w\s.,!?/-]
IsKept(c) == IsWord(c) \/ IsSpace(c) \/ c \in {".", ",", "!", "?", "/", "-"}

\* the markup tags of the modelled documents; each is one token
MarkupTokens == {"<b>", "</b>", "<a href=/in/x>", "<a class=mention href=/in/x>", "</a>"}

IsMarkup(c) == c \in MarkupTokens

\* membership of token c in the character class named cls
InClass(cls, c) ==
    CASE cls = "\\w" -> IsWord(c)
      [] cls = "\\s" -> IsSpace(c)
      [] cls = "[^\\s]" -> ~IsSpace(c)
      [] cls = "[a-zA-Z0-9_-]" -> IsLinkToken(c)
      [] cls = "[a-zA-Z0-9._-]" -> IsMentionChar(c)

(***************************************************************************)
(* Regular-expression machinery.  Match(pat, t, i) gives the position just *)
(* after the (greedy) match of pattern pat starting at position i of t, or *)
(* 0 when the pattern does not match there.                                *)
(***************************************************************************)
\* a literal string at position i
MatchLit(t, i, lit) ==
    IF i + Len(lit) - 1 <= Len(t) /\ SubSeq(t, i, i + Len(lit) - 1) = lit
    THEN i + Len(lit) ELSE 0

\* first position at or after i whose token is not in class cls (Len(t)+1 if none)
RunEnd(t, i, cls) ==
    CHOOSE j \in i..(Len(t) + 1) :
        /\ \A k \in i..(j - 1) : InClass(cls, t[k])
        /\ (j = Len(t) + 1 \/ ~InClass(cls, t[j]))

\* cls+ at position i
MatchRun(t, i, cls) ==
    IF i >= 1 /\ i <= Len(t) /\ InClass(cls, t[i]) THEN RunEnd(t, i, cls) ELSE 0

\* https?
MatchHttpScheme(t, i) ==
    LET h == MatchLit(t, i, <<"h", "t", "t", "p">>)
    IN IF h = 0 THEN 0
       ELSE IF h <= Len(t) /\ t[h] = "s" THEN h + 1 ELSE h

\* r'https?://lnkd\.in/[a-zA-Z0-9_-]+'
MatchStdLink(t, i) ==
    LET h == MatchHttpScheme(t, i)
        d == IF h = 0 THEN 0
             ELSE MatchLit(t, h, <<":", "/", "/", "l", "n", "k", "d", ".", "i", "n", "/">>)
    IN IF d = 0 THEN 0 ELSE MatchRun(t, d, "[a-zA-Z0-9_-]")

\* r'httpslnkd\.in[a-zA-Z0-9_-]+'
MatchMangledLink(t, i) ==
    LET d == MatchLit(t, i, <<"h", "t", "t", "p", "s", "l", "n", "k", "d", ".", "i", "n">>)
    IN IF d = 0 THEN 0 ELSE MatchRun(t, d, "[a-zA-Z0-9_-]")

\* r'lnkd\.in/[a-zA-Z0-9_-]+'
MatchBareLink(t, i) ==
    LET d == MatchLit(t, i, <<"l", "n", "k", "d", ".", "i", "n", "/">>)
    IN IF d = 0 THEN 0 ELSE MatchRun(t, d, "[a-zA-Z0-9_-]")

\* r'https?://[^\s]+'
MatchAnyUrl(t, i) ==
    LET h == MatchHttpScheme(t, i)
        d == IF h = 0 THEN 0 ELSE MatchLit(t, h, <<":", "/", "/">>)
    IN IF d = 0 THEN 0 ELSE MatchRun(t, d, "[^\\s]")

\* r'\s+'
MatchSpaces(t, i) == MatchRun(t, i, "\\s")

\* r'\s+([.!?,:;])'
MatchSpacePunct(t, i) ==
    LET e == MatchRun(t, i, "\\s")
    IN IF e # 0 /\ e <= Len(t) /\ IsPunct(t[e]) THEN e + 1 ELSE 0

\* r'[^\w\s.,!?/-]'
MatchSpecial(t, i) == IF ~IsKept(t[i]) THEN i + 1 ELSE 0

\* r'@[a-zA-Z0-9._-]+'
MatchMention(t, i) ==
    IF t[i] = "@" THEN MatchRun(t, i + 1, "[a-zA-Z0-9._-]") ELSE 0

\* r'@\w+\s+\w+'
MatchFullName(t, i) ==
    LET a == IF t[i] = "@" THEN MatchRun(t, i + 1, "\\w") ELSE 0
        b == IF a = 0 THEN 0 ELSE MatchRun(t, a, "\\s")
    IN IF b = 0 THEN 0 ELSE MatchRun(t, b, "\\w")

\* r'#\w+'
MatchHashtag(t, i) ==
    IF t[i] = "#" THEN MatchRun(t, i + 1, "\\w") ELSE 0

\* the pattern named pat, tried at position i
Match(pat, t, i) ==
    CASE pat = "std_link" -> MatchStdLink(t, i)
      [] pat = "mangled_link" -> MatchMangledLink(t, i)
      [] pat = "bare_link" -> MatchBareLink(t, i)
      [] pat = "any_url" -> MatchAnyUrl(t, i)
      [] pat = "spaces" -> MatchSpaces(t, i)
      [] pat = "space_punct" -> MatchSpacePunct(t, i)
      [] pat = "special" -> MatchSpecial(t, i)
      [] pat = "mention" -> MatchMention(t, i)
      [] pat = "full_name" -> MatchFullName(t, i)
      [] pat = "hashtag" -> MatchHashtag(t, i)

\* the replacement text for the match t[i..e-1]: '', ' ' or r'\1'
Replacement(repl, t, i, e) ==
    CASE repl = "" -> <<>>
      [] repl = " " -> <<" ">>
      [] repl = "\\1" -> <<t[e - 1]>>

\* re.sub(pat, repl, t): leftmost non-overlapping matches, left to right
ReSub(pat, repl, t) ==
    LET f[i \in 1..(Len(t) + 1)] ==
            IF i > Len(t) THEN <<>>
            ELSE LET e == Match(pat, t, i)
                 IN IF e > i THEN Replacement(repl, t, i, e) \o f[e]
                    ELSE <<t[i]>> \o f[i + 1]
    IN f[1]

\* len(re.findall(pat, t))
ReCount(pat, t) ==
    LET f[i \in 1..(Len(t) + 1)] ==
            IF i > Len(t) THEN 0
            ELSE LET e == Match(pat, t, i)
                 IN IF e > i THEN 1 + f[e] ELSE f[i + 1]
    IN f[1]

\* `sub in t` for Python strings
Contains(sub, t) ==
    \E i \in 1..(Len(t) - Len(sub) + 1) : SubSeq(t, i, i + Len(sub) - 1) = sub

\* BeautifulSoup(text, 'html.parser').get_text(): the text nodes, tags dropped
GetText(t) == SelectSeq(t, LAMBDA c : ~IsMarkup(c))

\* str.strip()
Strip(t) ==
    IF \A k \in 1..Len(t) : IsSpace(t[k]) THEN <<>>
    ELSE LET a == CHOOSE i \in 1..Len(t) :
                      ~IsSpace(t[i]) /\ \A k \in 1..(i - 1) : IsSpace(t[k])
             b == CHOOSE j \in 1..Len(t) :
                      ~IsSpace(t[j]) /\ \A k \in (j + 1)..Len(t) : IsSpace(t[k])
         IN SubSeq(t, a, b)

\* len(text.split()): the number of maximal runs of non-whitespace
SplitCount(t) ==
    LET f[i \in 1..(Len(t) + 1)] ==
            IF i > Len(t) THEN 0
            ELSE IF IsSpace(t[i]) THEN f[i + 1]
            ELSE 1 + f[RunEnd(t, i, "[^\\s]")]
    IN f[1]

\* the statements of _clean_text after the emptiness test (lines 156-174), in
\* order; CleanStep(k, t) is the text after statement k ran on text t
CleanSteps == 8

CleanStep(k, t) ==
    CASE k = 1 -> GetText(t)                        \* line 156
      [] k = 2 -> ReSub("std_link", "", t)          \* line 160
      [] k = 3 -> ReSub("mangled_link", "", t)      \* line 161
      [] k = 4 -> ReSub("bare_link", "", t)         \* line 162
      [] k = 5 -> ReSub("any_url", "", t)           \* line 165
      [] k = 6 -> ReSub("spaces", " ", Strip(t))    \* line 168
      [] k = 7 -> ReSub("space_punct", "\\1", t)    \* line 171
      [] k = 8 -> ReSub("special", "", t)           \* line 174

\* _clean_text
CleanText(text) ==
    LET after[k \in 0..CleanSteps] ==
            IF k = 0 THEN text ELSE CleanStep(k, after[k - 1])
    IN IF text = <<>> THEN <<>> ELSE after[CleanSteps]

(***************************************************************************)
(* The feature detectors.                                                  *)
(***************************************************************************)
\* str.lower() of one character
LowerChar(c) ==
    IF \E k \in 1..26 : UpperSeq[k] = c
    THEN LowerSeq[CHOOSE k \in 1..26 : UpperSeq[k] = c]
    ELSE c

\* str.lower()
Lower(t) == [k \in 1..Len(t) |-> LowerChar(t[k])]

\* tag_indicators (lines 194-204): for each CSS selector, in order, the markup
\* tags of MarkupTokens whose element it selects
TagIndicators ==
    << {"<a href=/in/x>", "<a class=mention href=/in/x>"},  \* a[href*="/in/"]
       {},                                                  \* a[href*="/company/"]
       {},                                                  \* .feed-shared-actor__name
       {},                                                  \* .feed-shared-actor__title
       {},                                                  \* [data-entity-urn*="person"]
       {},                                                  \* [data-entity-urn*="company"]
       {"<a class=mention href=/in/x>"},                    \* .mention
       {} >>                                                \* .tagged-mention

\* len(soup.select(selector)) for the selector at position s of tag_indicators
SelectCount(t, s) == Len(SelectSeq(t, LAMBDA c : c \in TagIndicators[s]))

\* sum of a sequence of numbers
Sum(ns) ==
    LET partial[k \in 0..Len(ns)] == IF k = 0 THEN 0 ELSE partial[k - 1] + ns[k]
    IN partial[Len(ns)]

\* mention_patterns (lines 216-220)
MentionPatternsNoHashtag == <<"mention", "full_name">>

MentionPatterns == <<"mention", "full_name", "hashtag">>

\* tag_phrases (lines 227-234)
TagPhrases ==
    << <<"t", "a", "g", "g", "e", "d">>,
       <<"m", "e", "n", "t", "i", "o", "n", "e", "d">>,
       <<"t", "h", "a", "n", "k", "s", " ", "t", "o">>,
       <<"k", "u", "d", "o", "s", " ", "t", "o">>,
       <<"s", "h", "o", "u", "t", " ", "o", "u", "t", " ", "t", "o">>,
       <<"t", "h", "a", "n", "k", "s", " ", "f", "o", "r">> >>

\* _detect_tags
DetectTags(raw_content) ==
    IF raw_content = <<>> THEN 0
    ELSE LET text_content == GetText(raw_content)
             text_lower == Lower(text_content)
         IN Sum([s \in 1..Len(TagIndicators) |-> SelectCount(raw_content, s)])
            + Sum([p \in 1..Len(MentionPatterns) |->
                       ReCount(MentionPatterns[p], text_content)])
            + Sum([q \in 1..Len(TagPhrases) |->
                       IF Contains(TagPhrases[q], text_lower) THEN 1 ELSE 0])

\* the literal 'https://lnkd.in' (line 255)
LnkdPrefix == <<"h", "t", "t", "p", "s", ":", "/", "/", "l", "n", "k", "d", ".", "i", "n">>

\* the prefix looked for after the short links were removed
DetectExternalLinkAfterCleaning(raw_content) ==
    IF raw_content = <<>> THEN FALSE
    ELSE Contains(LnkdPrefix, ReSub("std_link", "", raw_content))

\* _detect_external_link
DetectExternalLink(raw_content) ==
    IF raw_content = <<>> THEN FALSE ELSE Contains(LnkdPrefix, raw_content)

(***************************************************************************)
(* Input texts of the text functions: up to MaxFrags fragments of post     *)
(* text, concatenated, and the example text of the tag counter.            *)
(***************************************************************************)
Fragments ==
    { <<" ">>, <<"@">>, <<".">>, <<"#", "a", "i">>,
      <<"l", "n", "k", "d", ".", "i", "n", "/">>,
      <<"h", "t", "t", "p", "s", ":", "/", "/", "l", "n", "k", "d", ".", "i", "n", "/", "a", "b", "c">>,
      <<"Q", " ", "&", " ", "A">>,
      <<"T", "h", "a", "n", "k", "s", " ", "t", "o">>,
      <<"<a class=mention href=/in/x>">> }

RECURSIVE Flatten(_)
Flatten(fs) == IF fs = <<>> THEN <<>> ELSE Head(fs) \o Flatten(Tail(fs))

Texts == {Flatten(fs) : fs \in UNION {[1..n -> Fragments] : n \in 0..MaxFrags}}

\* "Check out #ai and #ML today"
ExampleTagText ==
    <<"C", "h", "e", "c", "k", " ", "o", "u", "t", " ", "#", "a", "i", " ", "a", "n", "d", " ", "#", "M", "L", " ", "t", "o", "d", "a", "y">>

TextInputs == Texts \cup {ExampleTagText}

(***************************************************************************)
(* The text functions applied to one input.                                *)
(***************************************************************************)
InitText ==
    /\ raw \in TextInputs
    /\ step = "input"
    /\ cleaned = <<>>
    /\ recleaned = <<>>
    /\ n_tags = 0
    /\ pc = "idle"
    /\ export = <<>>
    /\ posts_df = <<>>
    /\ df = <<>>
    /\ index = 0
    /\ fetchLog = <<>>
    /\ fetched = <<>>
    /\ outcomes = <<>>
    /\ saved = <<>>

\* cleaned_content = _clean_text(raw_text_content)
Normalize ==
    /\ step = "input"
    /\ cleaned' = CleanText(raw)
    /\ step' = "cleaned"
    /\ UNCHANGED <<raw, recleaned, n_tags>>
    /\ UNCHANGED pipelineVars

\* _clean_text applied to its own output
NormalizeAgain ==
    /\ step = "cleaned"
    /\ recleaned' = CleanText(cleaned)
    /\ step' = "recleaned"
    /\ UNCHANGED <<raw, cleaned, n_tags>>
    /\ UNCHANGED pipelineVars

\* n_tags = _detect_tags(raw_text_content)
CountTags ==
    /\ step = "input"
    /\ n_tags' = DetectTags(raw)
    /\ step' = "tagged"
    /\ UNCHANGED <<raw, cleaned, recleaned>>
    /\ UNCHANGED pipelineVars

NextText == Normalize \/ NormalizeAgain \/ CountTags

SpecText == InitText /\ [][NextText]_vars

(***************************************************************************)
(* Fetched documents.  An HTML document is the sequence of its elements;   *)
(* the empty string (a failed or empty fetch) is the empty sequence.  An   *)
(* element records its tag and the attributes the code reads; an attribute *)
(* that is absent is the empty string, as with element.get(attr, '').      *)
(***************************************************************************)
Meta(name, property, content) ==
    [tag |-> "meta", name |-> name, property |-> property, content |-> content]

Title == [tag |-> "title", name |-> "", property |-> "", content |-> <<>>]

\* the literal 'https://media.licdn.com/dms/image' (line 275)
MediaPrefix ==
    <<"h", "t", "t", "p", "s", ":", "/", "/", "m", "e", "d", "i", "a", ".", "l", "i", "c", "d", "n", ".", "c", "o", "m", "/", "d", "m", "s", "/", "i", "m", "a", "g", "e">>

MediaUrl == MediaPrefix \o <<"/", "x", "1">>

OtherImageUrl == <<"h", "t", "t", "p", "s", ":", "/", "/", "x", ".", "i", "o", "/", "a">>

\* soup.find('meta', attrs={'name': 'description'}): the first such element
FindMetaByName(html, name) ==
    LET hits == SelectSeq(html, LAMBDA e : e.tag = "meta" /\ e.name = name)
    IN IF hits = <<>> THEN <<>> ELSE <<Head(hits)>>

\* soup.find('meta', property='og:image'): the first such element
FindMetaByProperty(html, property) ==
    LET hits == SelectSeq(html, LAMBDA e : e.tag = "meta" /\ e.property = property)
    IN IF hits = <<>> THEN <<>> ELSE <<Head(hits)>>

\* _extract_post_content
ExtractPostContent(html_content) ==
    IF html_content = <<>> THEN <<>>
    ELSE LET description_meta == FindMetaByName(html_content, "description")
         IN IF description_meta # <<>> /\ description_meta[1].content # <<>>
            THEN Strip(description_meta[1].content)
            ELSE <<>>

\* _detect_media
DetectMedia(html_content) ==
    IF html_content = <<>> THEN FALSE
    ELSE LET og_image == FindMetaByProperty(html_content, "og:image")
         IN og_image # <<>> /\ Contains(MediaPrefix, og_image[1].content)

\* the pages the modelled site serves
Pages ==
    { <<Title, Meta("description", "", <<"S", "e", "e", " ", "h", "t", "t", "p", "s", ":", "/", "/", "l", "n", "k", "d", ".", "i", "n", "/", "a", "b", "c", "1", "2", "3", " ", "f", "o", "r", " ", "m", "o", "r", "e">>),
        Meta("", "og:image", MediaUrl)>>,
      <<Meta("description", "", <<"C", "h", "e", "c", "k", " ", "o", "u", "t", " ", "#", "a", "i", " ", "a", "n", "d", " ", "#", "M", "L", " ", "t", "o", "d", "a", "y">>)>>,
      <<Title, Meta("", "og:image", OtherImageUrl)>>,
      <<Meta("description", "", <<" ", " ", "Q", " ", "&", " ", "A", " ", "@", "j", "o", " ", ",", " ", " ", "l", "n", "k", "d", ".", "i", "n", "/", "#", "a", "i", " ">>),
        Meta("", "og:image", OtherImageUrl)>>,
      <<Meta("description", "", <<>>), Meta("", "og:image", MediaUrl)>>,
      <<Title, Meta("description", "", <<"n", "o", " ", "l", "i", "n", "k", "s", " ", "h", "e", "r", "e">>),
        Meta("description", "", <<"C", "h", "e", "c", "k", " ", "o", "u", "t", " ", "#", "a", "i", " ", "a", "n", "d", " ", "#", "M", "L", " ", "t", "o", "d", "a", "y">>)>> }

\* the page sent with an HTTP error status
ErrorPage ==
    <<Title, Meta("description", "", <<"S", "i", "g", "n", " ", "i", "n", " ", "h", "t", "t", "p", "s", ":", "/", "/", "l", "n", "k", "d", ".", "i", "n", "/", "x", " ", "#", "a", "i">>),
      Meta("", "og:image", MediaUrl)>>

\* what the network can answer to requests.get: a response with status 200 and
\* a body (possibly empty), an error status with the error page, or no response
NetworkOutcomes ==
    {[kind |-> "ok", body |-> b] : b \in Pages \cup {<<>>}}
        \cup {[kind |-> "http_error", body |-> ErrorPage],
              [kind |-> "timeout", body |-> <<>>]}

NoRequest == [kind |-> "no_request", body |-> <<>>]

NotAsked == [kind |-> "none", body |-> <<>>]

\* a failed request tried a second time
RequestCountWithRetry(url, outcome) ==
    IF url = "" THEN 0 ELSE IF outcome.kind = "ok" THEN 1 ELSE 2

\* number of requests.get calls of one _download_post_html call
RequestCount(url, outcome) == IF url = "" THEN 0 ELSE 1

\* response.text returned without raise_for_status
DownloadPostHtmlNoStatusCheck(url, outcome) ==
    IF url = "" THEN <<>>
    ELSE IF outcome.kind \in {"ok", "http_error"} THEN outcome.body
    ELSE <<>>

\* _download_post_html: response.text, or "" when the url is empty, the status is
\* an error (raise_for_status) or the request raised
DownloadPostHtml(url, outcome) ==
    IF url = "" THEN <<>>
    ELSE IF outcome.kind = "ok" THEN outcome.body
    ELSE <<>>

(***************************************************************************)
(* Tables.  A table is a sequence of rows; a row maps column names to      *)
(* values.  An optional value (a date that may be NaT, a count that may be *)
(* NA) is a sequence of length at most one.                                *)
(***************************************************************************)
ExpectedHeader == <<"Post URL", "Post publish date", "Impressions">>

Headers ==
    { ExpectedHeader,
      <<"Post URL", "Impressions", "Post publish date">>,
      <<"Post URL", "Post publish date", "Engagements">>,
      <<"Post URL", "Post publish date", "impressions">> }

Urls == {"", "https://www.linkedin.com/posts/a", "https://www.linkedin.com/posts/b"}

\* publish dates as days since 1970-01-01; 19786 is Monday 2024-03-04
Dates == {<<>>, <<19786>>}

ImpressionCounts == {<<>>, <<7>>}

Cells == {<<u, d, n>> : u \in Urls, d \in Dates, n \in ImpressionCounts}

Sheets == UNION {[1..n -> Cells] : n \in 0..MaxPosts}

\* the export files the export directory can hold
Exports ==
    {[files |-> TRUE, readable |-> TRUE, unnamed |-> TRUE, header |-> h, cells |-> c] :
        h \in Headers, c \in Sheets}
    \cup {[files |-> f, readable |-> r, unnamed |-> u, header |-> ExpectedHeader,
           cells |-> <<>>] : f \in BOOLEAN, r \in BOOLEAN, u \in BOOLEAN}

\* lines 45-62: the table parse_linkedin_export builds from the sheet
ParsedTable(e) ==
    [i \in 1..Len(e.cells) |->
        [c \in Range(e.header) |->
            e.cells[i][CHOOSE k \in 1..Len(e.header) : e.header[k] = c]]]

\* the column-name test of lines 65-70 left out
ParseSucceedsNoHeaderCheck(e) ==
    /\ e.files
    /\ e.readable
    /\ e.unnamed

\* lines 27-45 and 65-70: whether parse_linkedin_export returns (rather than raises)
ParseSucceeds(e) ==
    /\ e.files
    /\ e.readable
    /\ e.unnamed
    /\ e.header = ExpectedHeader

\* only the rows the loop will reach are kept
WithNewColumnsFirstRowOnly(posts) ==
    [i \in 1..(IF Len(posts) > 1 THEN 1 ELSE Len(posts)) |->
        [c \in DOMAIN posts[i]
                 \cup {"post_text", "word_count", "n_tags", "external_link", "media", "post_day"} |->
            CASE c = "post_text" -> <<>>
              [] c = "word_count" -> 0
              [] c = "n_tags" -> 0
              [] c = "external_link" -> FALSE
              [] c = "media" -> FALSE
              [] c = "post_day" -> ""
              [] OTHER -> posts[i][c]]]

\* lines 79-87: the copy of posts_df with the new columns initialised
WithNewColumns(posts) ==
    [i \in 1..Len(posts) |->
        [c \in DOMAIN posts[i]
                 \cup {"post_text", "word_count", "n_tags", "external_link", "media", "post_day"} |->
            CASE c = "post_text" -> <<>>
              [] c = "word_count" -> 0
              [] c = "n_tags" -> 0
              [] c = "external_link" -> FALSE
              [] c = "media" -> FALSE
              [] c = "post_day" -> ""
              [] OTHER -> posts[i][c]]]

Weekdays == <<"Thursday", "Friday", "Saturday", "Sunday", "Monday", "Tuesday", "Wednesday">>

\* lines 121-129: publish_date.strftime('%A'), '' for NaT
PostDay(publish_date) ==
    IF publish_date = <<>> THEN "" ELSE Weekdays[(publish_date[1] % 7) + 1]

\* len(cleaned_content) in place of len(cleaned_content.split())
WordCountOfCharacters(cleaned_content) ==
    IF cleaned_content = <<>> THEN 0 ELSE Len(cleaned_content)

\* line 118
WordCount(cleaned_content) ==
    IF cleaned_content = <<>> THEN 0 ELSE SplitCount(cleaned_content)

\* lines 131-137: the row with the loop body's results stored in it
UpdatedRow(row, cleaned_content, word_count, tags, external_link, has_media, post_day) ==
    [row EXCEPT !["post_text"] = cleaned_content,
                !["word_count"] = word_count,
                !["n_tags"] = tags,
                !["external_link"] = external_link,
                !["media"] = has_media,
                !["post_day"] = post_day]

\* line 144: str.replace(' ', '_').str.lower() on a column name
SnakeLower(c) ==
    CASE c = "Post URL" -> "post_url"
      [] c = "Post publish date" -> "post_publish_date"
      [] c = "Impressions" -> "impressions"
      [] OTHER -> c

\* line 144 applied to every row
RenameColumns(table) ==
    [i \in 1..Len(table) |->
        [n \in {SnakeLower(c) : c \in DOMAIN table[i]} |->
            table[i][CHOOSE c \in DOMAIN table[i] : SnakeLower(c) = n]]]

(***************************************************************************)
(* make_dataset.                                                           *)
(***************************************************************************)
Init ==
    /\ pc = "start"
    /\ export \in Exports
    /\ posts_df = <<>>
    /\ df = <<>>
    /\ index = 0
    /\ fetchLog = <<>>
    /\ fetched = <<>>
    /\ outcomes = <<>>
    /\ saved = <<>>
    /\ raw = <<>>
    /\ step = "idle"
    /\ cleaned = <<>>
    /\ recleaned = <<>>
    /\ n_tags = 0

\* data_acquisition.py line 16: parse_linkedin_export returns the table or raises
ParseExport ==
    /\ pc = "start"
    /\ IF ParseSucceeds(export)
       THEN /\ posts_df' = ParsedTable(export)
            /\ pc' = "parsed"
       ELSE /\ posts_df' = posts_df
            /\ pc' = "error"
    /\ UNCHANGED <<export, df, index, fetchLog, fetched, outcomes, saved>>
    /\ UNCHANGED textVars

\* get_posts, lines 79-87
BeginGetPosts ==
    /\ pc = "parsed"
    /\ df' = WithNewColumns(posts_df)
    /\ index' = 0
    /\ fetched' = [i \in 1..Len(posts_df) |-> [done |-> FALSE, html |-> <<>>]]
    /\ outcomes' = [i \in 1..Len(posts_df) |-> NotAsked]
    /\ pc' = "loop"
    /\ UNCHANGED <<export, posts_df, fetchLog, saved>>
    /\ UNCHANGED textVars

\* get_posts, lines 90-139: one pass of the loop body, on the row labelled index
ProcessRow ==
    /\ pc = "loop"
    /\ index < Len(df)
    /\ ~(index >= 1)
    /\ \E row \in {df[index + 1]} :
       \E url \in {row["Post URL"]} :
       \E outcome \in (IF url = "" THEN {NoRequest} ELSE NetworkOutcomes) :
       \E html_content \in {DownloadPostHtml(url, outcome)} :
       \E raw_text_content \in {ExtractPostContent(html_content)} :
       \E tags \in {DetectTags(raw_text_content)} :
       \E external_link \in {DetectExternalLink(raw_text_content)} :
       \E has_media \in {DetectMedia(html_content)} :
       \E cleaned_content \in {CleanText(raw_text_content)} :
       \E word_count \in {WordCount(cleaned_content)} :
       \E post_day \in {PostDay(row["Post publish date"])} :
          /\ fetchLog' = fetchLog \o [k \in 1..RequestCount(url, outcome) |-> index]
          /\ outcomes' = [outcomes EXCEPT ![index + 1] = outcome]
          /\ fetched' = [fetched EXCEPT ![index + 1] =
                             [done |-> TRUE, html |-> html_content]]
          /\ df' = [df EXCEPT ![index + 1] =
                        UpdatedRow(row, cleaned_content, word_count, tags,
                                   external_link, has_media, post_day)]
    /\ index' = index + 1
    /\ UNCHANGED <<pc, export, posts_df, saved>>
    /\ UNCHANGED textVars

\* get_posts, lines 92-93: the loop is left at the row labelled 1
BreakLoop ==
    /\ pc = "loop"
    /\ index < Len(df)
    /\ index >= 1
    /\ pc' = "after_loop"
    /\ UNCHANGED <<export, posts_df, df, index, fetchLog, fetched, outcomes, saved>>
    /\ UNCHANGED textVars

\* get_posts, line 90: iterrows is exhausted
EndLoop ==
    /\ pc = "loop"
    /\ index = Len(df)
    /\ pc' = "after_loop"
    /\ UNCHANGED <<export, posts_df, df, index, fetchLog, fetched, outcomes, saved>>
    /\ UNCHANGED textVars

\* get_posts, lines 141-146
ReturnPosts ==
    /\ pc = "after_loop"
    /\ df' = RenameColumns(df)
    /\ pc' = "returned"
    /\ UNCHANGED <<export, posts_df, index, fetchLog, fetched, outcomes, saved>>
    /\ UNCHANGED textVars

\* data_acquisition.py lines 22-26
SaveDataset ==
    /\ pc = "returned"
    /\ saved' = <<df>>
    /\ pc' = "saved"
    /\ UNCHANGED <<export, posts_df, df, index, fetchLog, fetched, outcomes>>
    /\ UNCHANGED textVars

Next ==
    \/ ParseExport
    \/ BeginGetPosts
    \/ ProcessRow
    \/ BreakLoop
    \/ EndLoop
    \/ ReturnPosts
    \/ SaveDataset

Spec == Init /\ [][Next]_vars

(***************************************************************************)
(* Properties.                                                             *)
(***************************************************************************)
Returned == pc \in {"returned", "saved"}

\* the table as it is named at the current position: line 144 has run or not
AsNamedNow(table) == IF Returned THEN RenameColumns(table) ELSE table

\* number of whitespace-delimited tokens: the positions where a token starts
TokenCount(t) ==
    Cardinality({k \in 1..Len(t) : ~IsSpace(t[k]) /\ (k = 1 \/ IsSpace(t[k - 1]))})

\* the feature columns of a row are those the pipeline derives from document html
FeaturesFrom(row, html) ==
    /\ row["post_text"] = CleanText(ExtractPostContent(html))
    /\ row["word_count"] = TokenCount(CleanText(ExtractPostContent(html)))
    /\ row["n_tags"] = DetectTags(ExtractPostContent(html))
    /\ row["external_link"] = DetectExternalLink(ExtractPostContent(html))
    /\ row["media"] = DetectMedia(html)

\* the network gave no document for row i: no request, a failure, or an empty body
NoDocument(i) ==
    \/ outcomes[i].kind \in {"http_error", "timeout"}
    \/ outcomes[i].kind \in {"ok", "no_request"} /\ outcomes[i].body = <<>>

ZeroFeatures(row) ==
    /\ row["post_text"] = <<>>
    /\ row["word_count"] = 0
    /\ row["n_tags"] = 0
    /\ row["external_link"] = FALSE
    /\ row["media"] = FALSE

\* C1: every record with a URL, not only the first, is fetched, and its output row
\* holds the features derived from the document fetched for it.
C1_EveryRecordProcessed ==
    Returned =>
        \A i \in 1..Len(posts_df) :
            posts_df[i]["Post URL"] # "" =>
                /\ (i - 1) \in Range(fetchLog)
                /\ fetched[i].done
                /\ FeaturesFrom(df[i], fetched[i].html)

\* C2: get_posts returns as many rows as it was given, and row i carries the url,
\* publish date and impressions of input row i.
C2_SameLengthAndOrder ==
    Returned =>
        /\ Len(df) = Len(posts_df)
        /\ \A i \in 1..Len(posts_df) :
              /\ df[i]["post_url"] = posts_df[i]["Post URL"]
              /\ df[i]["post_publish_date"] = posts_df[i]["Post publish date"]
              /\ df[i]["impressions"] = posts_df[i]["Impressions"]

C2_Witness ==
    /\ pc = "returned"
    /\ Len(df) = MaxPosts
    /\ outcomes[1].kind = "timeout"
    /\ df[1]["post_url"] # df[2]["post_url"]
    /\ df[1]["impressions"] # df[2]["impressions"]

\* C3: a failed or empty fetch raises no error and leaves its row with the all-zero
\* features; the rows the loop body has not run on are as they were initialised.
C3_FailedFetchGivesZeroRow ==
    /\ pc = "error" => ~ParseSucceeds(export)
    /\ \A i \in DOMAIN fetched :
          /\ fetched[i].done /\ NoDocument(i) => ZeroFeatures(df[i])
          /\ ~fetched[i].done => df[i] = AsNamedNow(WithNewColumns(posts_df))[i]

C3_Witness ==
    /\ pc = "saved"
    /\ Len(df) = MaxPosts
    /\ fetched[1].done
    /\ outcomes[1].kind = "http_error"
    /\ ZeroFeatures(df[1])

\* C4: _clean_text is idempotent: cleaning a cleaned text changes nothing.
C4_CleanTextIdempotent == step = "recleaned" => recleaned = cleaned

\* a match of one of the three short-link patterns somewhere in t
HasShortLink(t) ==
    \E i \in 1..Len(t) :
        \/ Match("std_link", t, i) > 0
        \/ Match("mangled_link", t, i) > 0
        \/ Match("bare_link", t, i) > 0

\* C5: the output of _clean_text contains no match of a short-link pattern.
C5_NoShortLinkInOutput == step \in {"cleaned", "recleaned"} => ~HasShortLink(cleaned)

\* matches of r'#\w+': a '#' directly followed by a word character
HashtagCount(t) ==
    Cardinality({i \in 1..(Len(t) - 1) : t[i] = "#" /\ IsWord(t[i + 1])})

\* matches of r'@[a-zA-Z0-9._-]+'
MentionCount(t) ==
    Cardinality({i \in 1..(Len(t) - 1) : t[i] = "@" /\ IsMentionChar(t[i + 1])})

\* matches of r'@\w+\s+\w+'
FullNameCount(t) ==
    Cardinality({i \in 1..Len(t) :
        /\ t[i] = "@"
        /\ \E a \in (i + 1)..Len(t) : \E b \in (a + 1)..(Len(t) - 1) :
              /\ \A k \in (i + 1)..a : IsWord(t[k])
              /\ \A k \in (a + 1)..b : IsSpace(t[k])
              /\ IsWord(t[b + 1])})

\* elements selected by the tag indicator selectors, one per (element, selector)
SelectorHitCount(t) ==
    Cardinality({p \in (1..Len(t)) \X (1..Len(TagIndicators)) :
                    t[p[1]] \in TagIndicators[p[2]]})

\* tagging phrases present in the lower-cased text
PhraseCount(t) ==
    Cardinality({q \in 1..Len(TagPhrases) : Contains(TagPhrases[q], Lower(t))})

\* C6 as stated: the tag counter returns the number of hashtag matches in the
\* markup-stripped text.
C6_TagCountIsHashtagCount == step = "tagged" => n_tags = HashtagCount(GetText(raw))

\* C6 as amended: the tag counter returns the number of hashtag matches plus the
\* number of @-mention matches of both mention patterns, the number of elements the
\* tag selectors match and one for each tagging phrase present; 0 for empty input.
C6_TagCountIsSumOfSignals ==
    step = "tagged" =>
        n_tags = IF raw = <<>> THEN 0
                 ELSE HashtagCount(GetText(raw)) + MentionCount(GetText(raw))
                      + FullNameCount(GetText(raw)) + SelectorHitCount(raw)
                      + PhraseCount(GetText(raw))

C6_Witness ==
    /\ step = "tagged"
    /\ raw = ExampleTagText
    /\ HashtagCount(GetText(raw)) = 2
    /\ n_tags = 2

\* C7: in every row, word_count is the number of whitespace-delimited tokens of the
\* row's normalized post_text.
C7_WordCountOfPostText ==
    \A i \in DOMAIN df : df[i]["word_count"] = TokenCount(df[i]["post_text"])

C7_Witness ==
    /\ Returned
    /\ Len(df) = MaxPosts
    /\ fetched[1].done
    /\ df[1]["word_count"] = 3
    /\ TokenCount(ExtractPostContent(fetched[1].html)) = 4

\* C8: with a header other than Post URL, Post publish date, Impressions,
\* make_dataset stops at the parse: nothing is fetched, no row is built, no file
\* is written.
C8_SchemaViolationAborts ==
    export.header # ExpectedHeader =>
        /\ pc \in {"start", "error"}
        /\ fetchLog = <<>>
        /\ posts_df = <<>>
        /\ df = <<>>
        /\ saved = <<>>

C8_Witness ==
    /\ pc = "error"
    /\ export.files /\ export.readable /\ export.unnamed
    /\ export.header # ExpectedHeader
    /\ Len(export.cells) = MaxPosts
    /\ export.cells[1][1] # ""

\* the literal prefix occurs in t at some position
HasPrefixLiteral(t) ==
    \E k \in 1..Len(t) :
        k + Len(LnkdPrefix) - 1 <= Len(t)
        /\ \A j \in 1..Len(LnkdPrefix) : t[k + j - 1] = LnkdPrefix[j]

\* C9: external_link of a processed row is true iff the raw extracted content, before
\* normalization, contains https://lnkd.in.
C9_ExternalLinkFromRawContent ==
    \A i \in DOMAIN fetched :
        fetched[i].done =>
            df[i]["external_link"] = HasPrefixLiteral(ExtractPostContent(fetched[i].html))

C9_Witness ==
    /\ Returned
    /\ Len(df) = MaxPosts
    /\ fetched[1].done
    /\ df[1]["external_link"]
    /\ ~HasPrefixLiteral(df[1]["post_text"])
    /\ ~HasShortLink(df[1]["post_text"])

\* C10: requests.get is called at most once per record, also after a failure, and
\* the calls are in input order: the log of calls is strictly increasing.
C10_OneFetchPerRecordInOrder ==
    \A a \in DOMAIN fetchLog : \A b \in DOMAIN fetchLog :
        a < b => fetchLog[a] < fetchLog[b]

C10_Witness ==
    /\ pc = "saved"
    /\ Len(df) = MaxPosts
    /\ fetchLog = <<0>>
    /\ outcomes[1].kind = "timeout"

====
